---------------------------- MODULE Spec2Model ----------------------------
(***************************************************************************)
(* Revenue forecast ensemble (model/data_loader.py, model/inference.py,    *)
(* model/pipeline.py, backend/main.py) as a state machine.                 *)
(*                                                                         *)
(* Numbers.  Money is whole dollars; a float product or quotient of the    *)
(* source is the integer product followed by \div (truncation), and a      *)
(* comparison against a fraction of a mean is cross-multiplied, so it is   *)
(* exact.  Factors are per-mille (1000 = 1.0), ensemble weights are        *)
(* hundredths (100 = 1.0).  The float NaN is the value NaN below; every    *)
(* operator that can meet it says what the float does with it.             *)
(*                                                                         *)
(* Dates.  A date is month * 100 + day, month 1 being January 2023, so     *)
(* dates order as integers; a monthly series carries month numbers.        *)
(* The absent date (NaT) and the absent argument (None) are 0.             *)
(***************************************************************************)
EXTENDS Integers, Sequences, FiniteSets, TLC

VARIABLES
    now,              \* the wall clock (a date)
    data,             \* EnsemblePipeline.data: the ledger held, or NoLedger
    loader_data,      \* DataLoader.data: the ledger the loader parsed last
    loader_frame,     \* DataLoader.data: the rows of the frame it holds
    monthly_revenue,  \* EnsemblePipeline.monthly_revenue: a series, or <<>> with mr_set = FALSE
    mr_set,           \* EnsemblePipeline.monthly_revenue is not None
    disk,             \* the artifacts in model_dir
    inference,        \* ForecastInference: the models loaded by load_models
    rng,              \* numpy's global generator: [seed, pos]
    result            \* what the last call returned or raised

vars == <<now, data, loader_data, loader_frame, monthly_revenue, mr_set, disk, inference, rng, result>>

None == 0
NaT == 0
NaN == -1
NoLedger == "none"

----------------------------------------------------------------------------
(* Bounds of the model *)

\* how many months the wall clock may advance
MaxTicks == 1

----------------------------------------------------------------------------
(* Arithmetic helpers *)

Max(a, b) == IF a >= b THEN a ELSE b
Min(a, b) == IF a <= b THEN a ELSE b
Abs(a) == IF a >= 0 THEN a ELSE -a

IsNaN(x) == x = NaN

\* x * num / den on floats, truncated toward zero; NaN stays NaN
Scale(x, num, den) ==
    IF IsNaN(x) THEN NaN
    ELSE IF x * num >= 0 THEN (x * num) \div den ELSE -((-(x * num)) \div den)

\* Series.clip(lower=0): NaN stays NaN
ClipLower0(x) == IF IsNaN(x) THEN NaN ELSE Max(x, 0)

\* Series.clip(upper=u): NaN stays NaN
ClipUpper(x, u) == IF IsNaN(x) THEN NaN ELSE Min(x, u)

RECURSIVE SumSeq(_)
SumSeq(s) == IF s = <<>> THEN 0 ELSE Head(s) + SumSeq(Tail(s))

RECURSIVE MaxSeq(_)
MaxSeq(s) == IF Len(s) = 1 THEN s[1] ELSE Max(Head(s), MaxSeq(Tail(s)))

\* Series.mean() in whole dollars
Mean(s) == SumSeq(s) \div Len(s)

\* x < pct/100 * mean(s), exactly
LtPctOfMean(x, pct, s) == x * 100 * Len(s) < pct * SumSeq(s)

\* Series.tail(n)
TailN(s, n) == IF n >= Len(s) THEN s ELSE SubSeq(s, Len(s) - n + 1, Len(s))

\* Series.iloc[:-1]
DropLast(s) == SubSeq(s, 1, Len(s) - 1)

Revenues(series) == [i \in 1..Len(series) |-> series[i].revenue]

RECURSIVE ISqrtIn(_, _, _)
ISqrtIn(v, lo, hi) ==
    IF lo >= hi THEN lo
    ELSE LET mid == (lo + hi + 1) \div 2
         IN IF mid * mid <= v THEN ISqrtIn(v, mid, hi) ELSE ISqrtIn(v, lo, mid - 1)

\* floor of the square root
ISqrt(v) == ISqrtIn(v, 0, 46340)

\* Series.std() / Series.mean() of one sample, per-mille: the sample
\* standard deviation (ddof = 1) is NaN for a single row; an all-zero
\* sample has standard deviation 0
CvOfSample(s) ==
    IF Len(s) < 2 THEN NaN
    ELSE LET m == Mean(s)
             rel(i) == (Abs(s[i] - m) * 1000) \div m
         IN IF m <= 0 THEN 0
            ELSE ISqrt(SumSeq([i \in 1..Len(s) |-> rel(i) * rel(i)]) \div (Len(s) - 1))

----------------------------------------------------------------------------
(* Calendar *)

MonthOf(date) == date \div 100
DayOf(date) == date % 100
MkDate(month, day) == month * 100 + day

\* days in month m (m = 1 is January 2023; 2024 is a leap year)
MonthLen(m) ==
    LET k == ((m - 1) % 12) + 1
        year == 2023 + (m - 1) \div 12
    IN IF k = 2 THEN (IF year % 4 = 0 THEN 29 ELSE 28)
       ELSE IF k \in {4, 6, 9, 11} THEN 30 ELSE 31

RECURSIVE DaysBefore(_)
DaysBefore(m) == IF m <= 1 THEN 0 ELSE DaysBefore(m - 1) + MonthLen(m - 1)

\* (a - b).days
DaysBetween(a, b) == (DaysBefore(MonthOf(a)) + DayOf(a)) - (DaysBefore(MonthOf(b)) + DayOf(b))


----------------------------------------------------------------------------
(* Ledgers: the CSV files a caller can pass *)

ActiveStages == {"inquiry", "quote_sent", "booked", "final_payment"}
RequiredCols == {"inquiry_date", "trip_price", "current_stage", "trip_date", "booking_date"}
AllCols == RequiredCols \cup {"lead_id", "lead_source", "is_repeat_customer"}

Lead(id, stage, inquiry, trip, price) ==
    [lead_id |-> id, current_stage |-> stage, inquiry_date |-> inquiry,
     trip_date |-> trip, trip_price |-> price,
     booking_date |-> IF stage \in {"booked", "final_payment", "completed"} THEN inquiry ELSE NaT,
     lead_source |-> "web", is_repeat_customer |-> 0]

\* one completed trip on the 15th of month m, inquired on the 1st
Trip(m, price) == Lead(m, "completed", MkDate(m, 1), MkDate(m, 15), price)

Flat(n, v) == [i \in 1..n |-> v]

\* one completed trip per month with the given revenue; no trip in a month of revenue 0
History(revs) ==
    LET all == [i \in 1..Len(revs) |-> Trip(i, revs[i])]
        Positive(l) == l.trip_price > 0
    IN SelectSeq(all, Positive)

Paths == {"steady", "collapse", "dip", "low_tail", "future", "cliff", "gappy", "tail3",
          "unflagged", "short"}

\* what each file holds
Content(path) ==
    CASE path = "steady" ->
            History(Flat(14, 5000)) \o <<Lead(101, "inquiry", 1401, NaT, 10000)>>
      [] path = "collapse" ->
            History(Flat(13, 5000) \o <<800>>) \o <<Lead(102, "booked", 1310, 1720, 20000)>>
      [] path = "dip" ->
            History(Flat(13, 5000) \o <<1400>>)
                \o <<Lead(103, "final_payment", 1305, 1610, 250000)>>
      [] path = "low_tail" ->
            History(Flat(13, 5000) \o <<1600>>)
                \o <<Lead(104, "final_payment", 1310, 1612, 120000)>>
      [] path = "future" ->
            History(Flat(14, 5000))
                \o <<Lead(105, "completed", 1302, 1615, 9000),
                     Lead(106, "quote_sent", 1405, NaT, 8000),
                     Lead(107, "lost", 1201, NaT, 7000),
                     Lead(108, "inquiry", 1520, NaT, 6000)>>
      [] path = "brief" -> <<Trip(1, 5000), Trip(2, 500)>>
      [] path = "comped" ->   \* the trip of the second month was free
            <<Trip(1, 5000), Trip(2, 0)>> \o [i \in 1..12 |-> Trip(i + 2, 5000)]
      [] path = "spike" ->
            History(Flat(11, 5000) \o <<30000, 5000, 500>>)
      [] path = "unpaid" ->   \* every trip was free
            [i \in 1..14 |-> Trip(i, 0)]
      [] path = "cliff" ->
            History(Flat(12, 5000) \o <<20000, 3000>>)
      [] path = "gappy" ->
            History(Flat(10, 5000) \o <<0, 4000, 900, 3000>>)
                \o <<Lead(109, "completed", 1201, 1220, 4000)>>
      [] path = "tail3" ->
            History(Flat(11, 5000) \o <<900, 800, 500>>)
                \o <<Lead(110, "inquiry", 1402, NaT, 30000)>>
      [] path = "unflagged" ->   \* the pending lead's is_repeat_customer cell is blank
            History(Flat(14, 5000))
                \o <<[Lead(112, "inquiry", 1303, NaT, 12000) EXCEPT !.is_repeat_customer = NaN]>>
      [] path = "short" ->
            History(Flat(6, 5000)) \o <<Lead(111, "inquiry", 601, NaT, 10000)>>
      [] path = "mixed" ->
            History(Flat(14, 5000))
                \o <<Lead(121, "inquiry", 1401, NaT, 10000),
                     [Lead(122, "inquiry", 1402, NaT, 8000)
                        EXCEPT !.lead_source = "referral", !.is_repeat_customer = 1],
                     Lead(123, "booked", 1310, 1705, 7000),
                     [Lead(124, "inquiry", 1320, NaT, 6000) EXCEPT !.is_repeat_customer = 1],
                     [Lead(125, "final_payment", 1301, 1620, 4000)
                        EXCEPT !.lead_source = "partner"]>>
      [] path = "year365" ->   \* 2023-01-15 to 2024-01-15
            History(Flat(13, 5000)) \o <<Lead(131, "inquiry", 1301, NaT, 9000)>>
      [] path = "year366" ->   \* 2023-03-15 to 2024-03-15, over the leap day
            History(<<0, 0>> \o Flat(13, 5000))
      [] path = "all_open" ->
            <<Lead(132, "inquiry", 1201, NaT, 5000), Lead(133, "booked", 1210, 1705, 6000)>>
      [] path = "undated" ->   \* the completed lead has no trip date
            <<Lead(134, "completed", 1201, NaT, 5000), Lead(135, "lost", 1202, NaT, 4000)>>
      [] path = "no_booking_col" ->
            History(Flat(14, 5000))
      [] path = "resolved" ->   \* resolved leads whose trips are still to come
            History(Flat(14, 5000))
                \o <<Lead(141, "lost", 1301, 1620, 7000),
                     Lead(142, "cancelled", 1302, 1705, 6000),
                     Lead(143, "completed", 1303, 1610, 9000),
                     Lead(144, "inquiry", 1405, NaT, 8000),
                     Lead(145, "quote_sent", 1510, NaT, 3000)>>
      [] path = "dormant" ->   \* one trip, then seventeen months without any
            <<Trip(1, 5000), Trip(19, 500)>>

\* every file there is, each parsed once
KnownPaths ==
    Paths \cup {"brief", "mixed", "year365", "year366", "all_open", "undated",
                "no_booking_col", "resolved", "dormant", "comped", "spike", "unpaid"}
Frames == [path \in KnownPaths |-> Content(path)]

\* pd.read_csv(path): the rows of the file
Rows(path) == Frames[path]

\* the parsed file: its columns and its rows
File(path) ==
    [columns |-> IF path = "no_booking_col" THEN AllCols \ {"booking_date"} ELSE AllCols,
     rows |-> Rows(path)]

----------------------------------------------------------------------------
(* DataLoader *)

\* DataLoader.__init__: min_years, in hundredths of a year
MinYearsPct == 100

\* prepare_monthly_revenue's default exclude_incomplete_months
ExcludeIncompleteMonths == 2

IsCompletedTrip(l) == l.current_stage = "completed" /\ l.trip_date # NaT

RECURSIVE MinDate(_)
MinDate(s) == IF Len(s) = 1 THEN s[1] ELSE Min(Head(s), MinDate(Tail(s)))

TripDates(rows) == [i \in 1..Len(rows) |-> rows[i].trip_date]

\* a validation that counts a year as 365 days
ValidateIn365DayYears(file) ==
    LET completed == SelectSeq(file.rows, IsCompletedTrip)
        dates == TripDates(completed)
    IN IF completed = <<>> THEN "no_completed"
       ELSE IF DaysBetween(MaxSeq(dates), MinDate(dates)) * 100 < 365 * MinYearsPct
       THEN "too_short"
       ELSE ""

\* _validate_minimum_data: "" when the ledger passes, else why it raises
validate_minimum_data(file) ==
    LET completed == SelectSeq(file.rows, IsCompletedTrip)
        dates == TripDates(completed)
        date_range_days == DaysBetween(MaxSeq(dates), MinDate(dates))
    IN IF completed = <<>> THEN "no_completed"
       ELSE IF date_range_days * 10000 < 36525 * MinYearsPct THEN "too_short"
       ELSE ""

\* load_csv: "" when it returns the ledger, else why it raises
load_csv(path) ==
    IF ~(RequiredCols \subseteq File(path).columns) THEN "missing_columns"
    ELSE validate_minimum_data(File(path))

\* the rows of one calendar month
MonthRevenue(completed, m) ==
    LET InMonth(l) == MonthOf(l.trip_date) = m
        rows == SelectSeq(completed, InMonth)
    IN [date |-> m,
        revenue |-> SumSeq([i \in 1..Len(rows) |-> rows[i].trip_price]),
        trip_count |-> Len(rows)]

\* groupby month, then reindex to the contiguous calendar, filling with zero
ZeroFilled(completed) ==
    LET months == [i \in 1..Len(completed) |-> MonthOf(completed[i].trip_date)]
        first == MinDate(months)
        last == MaxSeq(months)
    IN [i \in 1..(last - first + 1) |-> MonthRevenue(completed, first + i - 1)]

\* the completed trips prepare_monthly_revenue aggregates
CompletedFor(rows, forecast_date) ==
    LET OnOrBefore(l) == l.trip_date <= forecast_date
        completed == SelectSeq(rows, IsCompletedTrip)
    IN IF forecast_date = None \/ completed = <<>> THEN completed
       ELSE SelectSeq(completed, OnOrBefore)

\* incomplete_mask of one month against the rolling averages
IsIncomplete(row, base) ==
    \/ row.trip_count * 100 * Len(base) < 50 * SumSeq([i \in 1..Len(base) |-> base[i].trip_count])
    \/ LtPctOfMean(row.revenue, 30, Revenues(base))
    \/ row.revenue < 1000

\* how many months the backward walk over last_months collects
RECURSIVE FlaggedSuffix(_, _, _)
FlaggedSuffix(series, base, left) ==
    IF left = 0 \/ series = <<>> THEN 0
    ELSE IF IsIncomplete(series[Len(series)], base)
         THEN 1 + FlaggedSuffix(DropLast(series), base, left - 1)
         ELSE 0

\* a step 3 that excludes as many months as are flagged among those checked
Step3EveryFlagged(series, k) ==
    LET HasTrips(r) == r.trip_count > 0
        non_zero_months == SelectSeq(series, HasTrips)
        base == TailN(non_zero_months, Min(6, Len(non_zero_months)))
        check_months == Min(k + 2, Len(series))
    IN IF Len(series) > k /\ non_zero_months # <<>>
       THEN Cardinality({i \in (Len(series) - check_months + 1)..Len(series) :
                            IsIncomplete(series[i], base)})
       ELSE 0

\* step 3: the number of trailing months excluded
Step3Excluded(series, k) ==
    LET HasTrips(r) == r.trip_count > 0
        non_zero_months == SelectSeq(series, HasTrips)
        base == TailN(non_zero_months, Min(6, Len(non_zero_months)))
        check_months == Min(k + 2, Len(series))
    IN IF Len(series) > k /\ non_zero_months # <<>>
       THEN FlaggedSuffix(series, base, check_months)
       ELSE 0

\* the additional safeguard: the last month against the one before it
SecondaryDrops(series) ==
    /\ Len(series) >= 2
    /\ series[Len(series)].revenue > 0
    /\ series[Len(series) - 1].revenue > 0
    /\ series[Len(series)].revenue * 10 < 2 * series[Len(series) - 1].revenue

\* a step 3 that removes the cutoff month alone
OnlyCutoffMonth(series, cutoff_date) ==
    LET Other(r) == r.date # cutoff_date
    IN SelectSeq(series, Other)

\* monthly_revenue[monthly_revenue['date'] < cutoff_date]
BeforeCutoff(series, cutoff_date) ==
    LET Before(r) == r.date < cutoff_date
    IN SelectSeq(series, Before)

\* prepare_monthly_revenue: [raised, series], with the series as it is before
\* and after step 3
prepare_monthly_revenue(path, forecast_date, k) ==
    LET completed == CompletedFor(File(path).rows, forecast_date)
        filled == ZeroFilled(completed)
        n3 == Step3Excluded(filled, k)
        \* the earliest of the months collected
        after3 == IF n3 = 0 THEN filled
                  ELSE BeforeCutoff(filled, filled[Len(filled) - n3 + 1].date)
        after4 == IF SecondaryDrops(after3) THEN DropLast(after3) ELSE after3
    IN IF completed = <<>>
       THEN [raised |-> FALSE, series |-> <<>>, filled |-> <<>>, after_step3 |-> <<>>]
       \* the log line after the exclusion formats the last date left: NaT
       ELSE IF n3 > 0 /\ after3 = <<>>
       THEN [raised |-> TRUE, series |-> <<>>, filled |-> filled, after_step3 |-> after3]
       ELSE [raised |-> FALSE, series |-> after4, filled |-> filled, after_step3 |-> after3]

\* a get_active_pipeline that takes every resolved lead with a trip to come
PipelineWithAllResolved(path, forecast_date, clock) ==
    LET ref == IF forecast_date = None THEN clock ELSE forecast_date
        rows == File(path).rows
        IsActive(l) ==
            l.inquiry_date # NaT /\ l.inquiry_date <= ref /\ l.current_stage \in ActiveStages
        IsFuture(l) == /\ l.current_stage \in {"completed", "lost", "cancelled"}
                       /\ l.trip_date # NaT /\ l.trip_date > ref
        future_trips == SelectSeq(rows, IsFuture)
    IN SelectSeq(rows, IsActive)
         \o [i \in 1..Len(future_trips) |->
               [future_trips[i] EXCEPT !.current_stage = "final_payment"]]

\* get_active_pipeline
get_active_pipeline(path, forecast_date, clock) ==
    LET ref == IF forecast_date = None THEN clock ELSE forecast_date
        rows == File(path).rows
        IsActive(l) ==
            l.inquiry_date # NaT /\ l.inquiry_date <= ref /\ l.current_stage \in ActiveStages
        IsFuture(l) == IsCompletedTrip(l) /\ l.trip_date > ref
        future_trips == SelectSeq(rows, IsFuture)
    IN SelectSeq(rows, IsActive)
         \o [i \in 1..Len(future_trips) |->
               [future_trips[i] EXCEPT !.current_stage = "final_payment"]]

\* a get_active_pipeline that relabels the future trips in the frame it holds
ReclassifiedInPlace(rows, forecast_date, clock) ==
    LET ref == IF forecast_date = None THEN clock ELSE forecast_date
    IN [i \in 1..Len(rows) |->
          IF IsCompletedTrip(rows[i]) /\ rows[i].trip_date > ref
          THEN [rows[i] EXCEPT !.current_stage = "final_payment"]
          ELSE rows[i]]

\* what get_active_pipeline leaves of self.data: both selections are copies,
\* and the relabelling is written to the copy
StoredAfterPipeline(rows, forecast_date, clock) == rows

----------------------------------------------------------------------------
(* ForecastInference: the three strategies *)

\* the forecast horizon: periods=12
Periods == 12

\* ForecastInference.__init__: ensemble_weights, in hundredths
WeightProphet == 40
WeightXgboost == 30
WeightPipeline == 30

ensemble_weights(method) ==
    CASE method = "prophet" -> WeightProphet
      [] method = "xgboost" -> WeightXgboost
      [] method = "pipeline" -> WeightPipeline

\* no artifact / no model loaded
NoModel == [kind |-> "none"]

Forecasts(frame) == [i \in 1..Len(frame) |-> frame[i].forecast]

\* the k-th smallest value of a sequence
KthSmallest(s, k) ==
    LET vals == {s[i] : i \in 1..Len(s)}
    IN CHOOSE v \in vals :
         /\ Cardinality({i \in 1..Len(s) : s[i] < v}) < k
         /\ Cardinality({i \in 1..Len(s) : s[i] <= v}) >= k

\* Series.median()
Median(s) ==
    IF Len(s) % 2 = 1 THEN KthSmallest(s, (Len(s) + 1) \div 2)
    ELSE (KthSmallest(s, Len(s) \div 2) + KthSmallest(s, Len(s) \div 2 + 1)) \div 2

\* what the fitted seasonal model predicts for period i, per-mille of its level
ProphetShape(shape, i) ==
    CASE shape = "seasonal" ->
            <<1000, 900, 1100, 1200, 800, -100, 1000, 1000, 1000, 1100, 900, 1000>>[i]
      [] shape = "trend" ->
            <<1500, 1600, 1700, 1800, 1900, 2000, 2100, 2200, 2300, 2400, 2500, 9000>>[i]

\* prophet_model.predict(future), the future periods: yhat, yhat_lower, yhat_upper
ProphetPredict(model, periods) ==
    [i \in 1..periods |->
        [date |-> model.last_ds + i,
         forecast |-> Scale(model.level, ProphetShape(model.shape, i), 1000),
         lower |-> Scale(model.level, ProphetShape(model.shape, i) - 200, 1000),
         upper |-> Scale(model.level, ProphetShape(model.shape, i) + 200, 1000)]]

\* forecast_prophet
forecast_prophet(model, periods) ==
    LET raw == ProphetPredict(model, periods)
        clipped == [i \in 1..Len(raw) |->
                      [raw[i] EXCEPT !.forecast = ClipLower0(@), !.lower = ClipLower0(@),
                                     !.upper = ClipLower0(@)]]
        median_val == Median(Forecasts(clipped))
    IN IF model = NoModel THEN <<>>
       ELSE IF Len(clipped) > 1 /\ median_val > 0
       THEN [i \in 1..Len(clipped) |->
                [clipped[i] EXCEPT !.forecast = ClipUpper(@, median_val * 3)]]
       ELSE clipped

\* forecast_xgboost: the total expected revenue; predict_proba gives every
\* lead the model's probability (per-mille)
forecast_xgboost(model, active_pipeline) ==
    IF model = NoModel \/ active_pipeline = <<>> THEN 0
    ELSE SumSeq([i \in 1..Len(active_pipeline) |->
                    Scale(active_pipeline[i].trip_price, model.proba, 1000)])

\* no conversion-rate table loaded
NoRates == [kind |-> "none"]

\* the hardcoded fallback rates, per-mille
HardcodedRates ==
    [inquiry |-> 150, quote_sent |-> 350, booked |-> 900, final_payment |-> 980]

\* a conversion-rate artifact in the segmented format
SegmentedTable ==
    [kind |-> "segmented",
     flat_rates |-> [inquiry |-> 200, quote_sent |-> 400, booked |-> 850, final_payment |-> 950],
     segmented_rates |-> (<<"inquiry", "web", 0>> :> 250) @@ (<<"booked", "web", 0>> :> 800),
     min_segment_size |-> 20]

\* a conversion-rate artifact in the old format: the flat rates alone
FlatTable ==
    [kind |-> "flat",
     flat_rates |-> [inquiry |-> 300, quote_sent |-> 500, booked |-> 800, final_payment |-> 950]]

\* the default minimum segment size
MinSegmentSize == 20

\* the stages in the order a lead passes them
StageRank(stage) ==
    CASE stage = "inquiry" -> 1 [] stage = "quote_sent" -> 2 [] stage = "booked" -> 3
      [] stage = "final_payment" -> 4 [] stage = "completed" -> 5 [] OTHER -> 0

\* the lead reached or passed the stage: a completed lead passed every stage,
\* a lost or cancelled one the stages its dates show
Reached(l, stage) ==
    IF l.current_stage \in {"lost", "cancelled"}
    THEN StageRank(stage) <= (IF l.booking_date # NaT THEN 3 ELSE 1)
    ELSE StageRank(stage) <= StageRank(l.current_stage)

\* the leads of a segment that reached its stage
SegmentLeads(rows, key) ==
    LET InSegment(l) == /\ Reached(l, key[1])
                        /\ l.lead_source = key[2]
                        /\ l.is_repeat_customer = key[3]
    IN SelectSeq(rows, InSegment)

SegmentSize(rows, key) == Len(SegmentLeads(rows, key))

\* completed among the leads that reached the stage, per-mille
CompletionRate(leads) ==
    LET Completed(l) == l.current_stage = "completed"
    IN IF leads = <<>> THEN 0 ELSE (Len(SelectSeq(leads, Completed)) * 1000) \div Len(leads)

\* the estimator of the conversion-rate table: a flat rate for every stage,
\* and a rate for every segment of at least min_segment_size leads
calculate_stage_conversion_rates(rows, min_segment_size) ==
    LET StageLeads(stage) == LET ReachedIt(l) == Reached(l, stage) IN SelectSeq(rows, ReachedIt)
        keys == {<<stage, rows[i].lead_source, rows[i].is_repeat_customer>> :
                    stage \in ActiveStages, i \in 1..Len(rows)}
        kept == {key \in keys : SegmentSize(rows, key) >= min_segment_size}
    IN [kind |-> "segmented",
        flat_rates |-> [stage \in ActiveStages |-> CompletionRate(StageLeads(stage))],
        segmented_rates |-> [key \in kept |-> CompletionRate(SegmentLeads(rows, key))],
        min_segment_size |-> min_segment_size]

\* the ledger a table was estimated from: 22 web leads that are not repeat
\* customers, half of them completed, and 5 referred repeat customers
TrainingLedger ==
    [i \in 1..27 |->
        IF i <= 11 THEN Trip(i, 5000)
        ELSE IF i <= 22 THEN Lead(i, "lost", MkDate(i - 11, 1), NaT, 5000)
        ELSE [Lead(i, IF i = 27 THEN "lost" ELSE "completed", MkDate(i - 22, 1),
                   IF i = 27 THEN NaT ELSE MkDate(i - 22, 20), 5000)
                EXCEPT !.lead_source = "referral", !.is_repeat_customer = 1]]

\* the artifact estimated from it with the default minimum
EstimatedTable == calculate_stage_conversion_rates(TrainingLedger, MinSegmentSize)

\* a lookup that matches a segment by stage and lead_source alone
LookupIgnoringFlag(row, flat_rates, segmented_rates) ==
    LET stage == row.current_stage
        sameSource == {key \in DOMAIN segmented_rates :
                          key[1] = stage /\ key[2] = row.lead_source}
    IN IF sameSource # {}
       THEN [raised |-> FALSE, rate |-> segmented_rates[CHOOSE key \in sameSource : TRUE]]
       ELSE IF stage \in DOMAIN flat_rates
       THEN [raised |-> FALSE, rate |-> flat_rates[stage]]
       ELSE [raised |-> FALSE, rate |-> 0]

\* forecast_pipeline.get_conversion_rate: [raised, rate]
get_conversion_rate(row, flat_rates, segmented_rates) ==
    LET stage == row.current_stage
        segment_key == <<stage, row.lead_source, row.is_repeat_customer>>
    IN IF DOMAIN segmented_rates # {} /\ IsNaN(row.is_repeat_customer)
       THEN [raised |-> TRUE, rate |-> 0]   \* int(nan)
       ELSE IF DOMAIN segmented_rates # {} /\ segment_key \in DOMAIN segmented_rates
       THEN [raised |-> FALSE, rate |-> segmented_rates[segment_key]]
       ELSE IF stage \in DOMAIN flat_rates
       THEN [raised |-> FALSE, rate |-> flat_rates[stage]]
       ELSE [raised |-> FALSE, rate |-> 0]

\* a forecast_pipeline that totals trip_price instead of weighted_revenue
PipelineValueAsForecast(rates, active_pipeline) ==
    LET flat_rates == IF rates = NoRates THEN HardcodedRates ELSE rates.flat_rates
        segmented_rates == IF rates.kind = "segmented" THEN rates.segmented_rates ELSE <<>>
        looked(i) == get_conversion_rate(active_pipeline[i], flat_rates, segmented_rates)
    IN [raised |-> \E i \in 1..Len(active_pipeline) : looked(i).raised,
        forecast |-> SumSeq([i \in 1..Len(active_pipeline) |-> active_pipeline[i].trip_price]),
        rates_source |-> "none", flat_rates |-> flat_rates,
        conversion_rate |-> [i \in 1..Len(active_pipeline) |-> looked(i).rate]]

\* forecast_pipeline: raised, or the total with details' rates_source and
\* flat_rates and the conversion_rate column
forecast_pipeline(rates, active_pipeline) ==
    LET has_segmented == rates.kind = "segmented"
        flat_rates == IF rates = NoRates THEN HardcodedRates ELSE rates.flat_rates
        segmented_rates == IF has_segmented THEN rates.segmented_rates ELSE <<>>
        rates_source == IF has_segmented THEN "segmented"
                        ELSE IF rates # NoRates THEN "empirical" ELSE "hardcoded"
        looked(i) == get_conversion_rate(active_pipeline[i], flat_rates, segmented_rates)
        raised == \E i \in 1..Len(active_pipeline) : looked(i).raised
        conversion_rate == [i \in 1..Len(active_pipeline) |-> looked(i).rate]
        total == SumSeq([i \in 1..Len(active_pipeline) |->
                           Scale(active_pipeline[i].trip_price, conversion_rate[i], 1000)])
    IN IF active_pipeline = <<>>
       THEN [raised |-> FALSE, forecast |-> 0, rates_source |-> "none",
             flat_rates |-> <<>>, conversion_rate |-> <<>>]
       ELSE IF raised
       THEN [raised |-> TRUE, forecast |-> 0, rates_source |-> rates_source,
             flat_rates |-> flat_rates, conversion_rate |-> <<>>]
       ELSE [raised |-> FALSE, forecast |-> total, rates_source |-> rates_source,
             flat_rates |-> flat_rates, conversion_rate |-> conversion_rate]

\* pd.date_range(start=last_date, periods=12, freq='MS') with one value per month
FlatFrame(last_date, monthly, lower_pm, upper_pm) ==
    [i \in 1..Periods |->
        [date |-> last_date + i - 1,
         forecast |-> monthly,
         lower |-> Scale(monthly, lower_pm, 1000),
         upper |-> Scale(monthly, upper_pm, 1000)]]

----------------------------------------------------------------------------
(* ForecastInference._combine_forecasts *)

RECURSIVE SortedSeq(_)
SortedSeq(S) ==
    IF S = {} THEN <<>>
    ELSE LET m == CHOOSE x \in S : \A y \in S : x <= y
         IN <<m>> \o SortedSeq(S \ {m})

FrameDates(frame) == {frame[i].date : i \in 1..Len(frame)}

\* the row of a strategy's frame for a month, after the left merge and fillna(0)
MergedValue(frame, m, col) ==
    IF m \in FrameDates(frame)
    THEN LET i == CHOOSE j \in 1..Len(frame) : frame[j].date = m
         IN IF IsNaN(frame[i][col]) THEN 0 ELSE frame[i][col]
    ELSE 0

\* the sum of the weights of the strategies in the run
TotalWeight(forecasts) ==
    SumSeq([k \in 1..Len(forecasts) |-> ensemble_weights(forecasts[k].method)])

\* a combiner that never renormalises
NeverNormalised(forecasts, m) == 100

\* the divisor of the normalisation, in hundredths
Normaliser(forecasts, m) ==
    IF TotalWeight(forecasts) > 0 /\ Abs(TotalWeight(forecasts) - 100) > 1
    THEN TotalWeight(forecasts)
    ELSE 100

WeightedSum(forecasts, m, col) ==
    SumSeq([k \in 1..Len(forecasts) |->
              MergedValue(forecasts[k].frame, m, col) * ensemble_weights(forecasts[k].method)])

\* _combine_forecasts: forecasts is a sequence of [method, frame]
combine_forecasts(forecasts) ==
    LET all_dates == UNION {FrameDates(forecasts[k].frame) : k \in 1..Len(forecasts)}
        dates == SortedSeq(all_dates)
    IN [i \in 1..Len(dates) |->
          [date |-> dates[i],
           forecast |-> WeightedSum(forecasts, dates[i], "forecast") \div Normaliser(forecasts, dates[i]),
           lower |-> WeightedSum(forecasts, dates[i], "lower") \div Normaliser(forecasts, dates[i]),
           upper |-> WeightedSum(forecasts, dates[i], "upper") \div Normaliser(forecasts, dates[i])]]

----------------------------------------------------------------------------
(* numpy's global generator *)

\* np.random.seed(42)
Seed == 42

\* a generator the program has not seeded: numpy seeds it from the operating
\* system when the process starts; seed 0 stands for that state
rng0 == [seed |-> 0, pos |-> 0]

\* the k-th standard normal draw after seeding, per-mille
Stream(seed, k) ==
    LET j == ((k - 1) % 24) + 1
    IN IF seed = Seed
       THEN <<497, -138, 648, 1523, -234, -234, 1579, 767, -469, 543, -463, -466,
              242, -1913, -1725, -562, -1013, 314, -908, -1412, 1466, -226, 68, -1425>>[j]
       ELSE <<1764, 400, 979, 2241, 1868, -977, 950, -151, -103, 411, 144, 1454,
              761, 122, 444, 334, 1494, -205, 313, -854, -2553, 654, 864, -742>>[j]

\* np.random.seed(42) followed by np.random.normal(loc, scale, n): the
\* generator the draws are taken from
Reseeded(g) == [seed |-> Seed, pos |-> 0]

\* the i-th of n draws of np.random.normal(0, 1, n) from generator g
Draw(g, i) == Stream(g.seed, g.pos + i)

\* the generator after n draws
Advance(g, n) == [g EXCEPT !.pos = @ + n]

\* np.clip(x, lo, hi): NaN stays NaN
Clip(x, lo, hi) == IF IsNaN(x) THEN NaN ELSE Max(lo, Min(x, hi))

\* z * (cv * num / 10) for a draw z and a coefficient of variation cv, per-mille
Perturbation(z, cv, num) ==
    IF IsNaN(cv) THEN NaN
    ELSE IF z >= 0 THEN (z * cv * num) \div 10000 ELSE -(((-z) * cv * num) \div 10000)

----------------------------------------------------------------------------
(* generate_12_month_forecast: the history it trusts *)

\* the double-check of the last month against the recent average
DropsLastMonth(series) ==
    LET recent_months == Min(12, Len(series) - 1)
        window == SubSeq(Revenues(series), Len(series) - recent_months, Len(series) - 1)
        last_month_revenue == series[Len(series)].revenue
    IN /\ Len(series) >= 2
       /\ \/ SumSeq(window) > 0 /\ LtPctOfMean(last_month_revenue, 30, window)
          \/ last_month_revenue < 1000

\* monthly_revenue after the double-check
Trusted(series) == IF series # <<>> /\ DropsLastMonth(series) THEN DropLast(series) ELSE series

\* pd.Timestamp.now().replace(day=1) as the start of a monthly date_range
NowStart(clock) == MonthOf(clock)

\* last_date: the first forecast month of the classifier and stage-weighted strategies
LastDate(trusted, clock) ==
    IF trusted = <<>> THEN NowStart(clock) ELSE trusted[Len(trusted)].date + 1

\* the sample recent_avg and recent_std are taken from: the last n months,
\* without the last one when it is below 30% of the others' average
RecentSample(trusted, n) ==
    LET recent_revenue == TailN(Revenues(trusted), Min(n, Len(trusted)))
    IN IF Len(recent_revenue) > 1
          /\ LtPctOfMean(recent_revenue[Len(recent_revenue)], 30, DropLast(recent_revenue))
       THEN DropLast(recent_revenue)
       ELSE recent_revenue

\* Series.std() in whole dollars: NaN for a single row
Std(sample) == Scale(CvOfSample(sample), Mean(sample), 1000)

\* std / mean if mean > 0 else 0.3, per-mille
CvRatio(std, mean) ==
    IF mean > 0 THEN (IF IsNaN(std) THEN NaN ELSE (std * 1000) \div mean) ELSE 300

----------------------------------------------------------------------------
(* generate_12_month_forecast: the seasonal strategy's corrections *)

\* the cap of a month: max(hist_max * 1.5, recent_avg * 2)
MaxReasonable(hist_max, recent_avg) == Max(Scale(hist_max, 1500, 1000), recent_avg * 2)

\* the bounds recomputed as fixed fractions of the point estimate
Rebound(frame, lower_pm, upper_pm) ==
    [i \in 1..Len(frame) |->
        [frame[i] EXCEPT !.lower = ClipLower0(Scale(frame[i].forecast, lower_pm, 1000)),
                         !.upper = ClipLower0(Scale(frame[i].forecast, upper_pm, 1000))]]

\* the cap pass: the point at max_reasonable, the upper bound at 1.5 times it
CapPass(frame, max_reasonable) ==
    IF MaxSeq(Forecasts(frame)) > max_reasonable
    THEN [i \in 1..Len(frame) |->
            [frame[i] EXCEPT !.forecast = ClipUpper(@, max_reasonable),
                             !.upper = ClipUpper(@, Scale(max_reasonable, 1500, 1000))]]
    ELSE frame

\* the dampening of a seasonal forecast that starts above 1.3 times the recent average
Dampened(frame, recent_avg) ==
    IF frame[1].forecast * 10 > recent_avg * 13
    THEN Rebound([i \in 1..Len(frame) |->
                    [frame[i] EXCEPT !.forecast =
                        (recent_avg * (300 - 25 * (i - 1)) + @ * (700 + 25 * (i - 1))) \div 1000]],
                 750, 1250)
    ELSE frame

\* the seasonal strategy's month-to-month variation, drawn from generator g
ProphetVariation(frame, hist_cv, g) ==
    Rebound([i \in 1..Len(frame) |->
               [frame[i] EXCEPT !.forecast =
                   Scale(@, Clip(IF IsNaN(hist_cv) THEN NaN
                                 ELSE 1000 + Perturbation(Draw(g, i), hist_cv, 5),
                                 700, 1300), 1000)]],
            750, 1250)

\* the sanity check of the seasonal forecast against the history
ProphetSanity(frame, trusted, g) ==
    LET hist == Revenues(trusted)
        recent_avg == Mean(TailN(hist, Min(6, Len(hist))))
        dampened == Dampened(frame, recent_avg)
        capped == CapPass(dampened, MaxReasonable(MaxSeq(hist), recent_avg))
    IN IF trusted = <<>> THEN frame
       ELSE IF Len(frame) > 1
       THEN ProphetVariation(capped, CvRatio(Std(hist), Mean(hist)), Reseeded(g))
       ELSE capped

----------------------------------------------------------------------------
(* generate_12_month_forecast: the sanity passes over the ensemble *)

\* pass 1: clip every value at zero
ClipPass(frame) ==
    [i \in 1..Len(frame) |->
        [frame[i] EXCEPT !.forecast = ClipLower0(@), !.lower = ClipLower0(@),
                         !.upper = ClipLower0(@)]]

\* Series.ewm(alpha=0.7, adjust=False).mean()
RECURSIVE Ewm(_)
Ewm(f) ==
    IF Len(f) <= 1 THEN f
    ELSE LET prev == Ewm(DropLast(f))
         IN Append(prev, (3 * prev[Len(prev)] + 7 * f[Len(f)]) \div 10)

\* pass 3: the smoothed forecast times (1 + variation), the bounds at +/- hist_cv
VariationPass(frame, hist_cv, g) ==
    LET base_forecast == Ewm(Forecasts(frame))
        variation(i) == Clip(Perturbation(Draw(g, i), hist_cv, 4), -250, 250)
        point(i) == ClipLower0(IF IsNaN(variation(i)) THEN NaN
                               ELSE Scale(base_forecast[i], 1000 + variation(i), 1000))
    IN IF Len(frame) > 1
       THEN [i \in 1..Len(frame) |->
               [date |-> frame[i].date,
                forecast |-> point(i),
                lower |-> ClipLower0(IF IsNaN(hist_cv) THEN NaN
                                     ELSE Scale(point(i), 1000 - hist_cv, 1000)),
                upper |-> IF IsNaN(hist_cv) THEN NaN ELSE Scale(point(i), 1000 + hist_cv, 1000)]]
       ELSE frame

\* jump_ratio > 1.3, the ratio being infinite when the last month has no revenue
JumpExceeds(first_forecast, last_month) ==
    IF last_month > 0
    THEN ~IsNaN(first_forecast) /\ first_forecast * 10 > last_month * 13
    ELSE TRUE

\* the forecast weight of transition month i (i = 0, 1, 2), per-mille
TransitionWeight(i) == 200 + (i * 600) \div 3

\* the blend of the last historical month and the forecast of month i (from 0)
TransitionTarget(original, last_month, i) ==
    IF i < 3
    THEN IF IsNaN(original) THEN NaN
         ELSE (last_month * (1000 - TransitionWeight(i)) + original * TransitionWeight(i)) \div 1000
    ELSE original

\* pass 4: transition smoothing
TransitionPass(frame, last_month) ==
    IF JumpExceeds(frame[1].forecast, last_month)
    THEN Rebound([i \in 1..Len(frame) |->
                    [frame[i] EXCEPT !.forecast = TransitionTarget(@, last_month, i - 1)]],
                 700, 1300)
    ELSE frame

----------------------------------------------------------------------------
(* generate_12_month_forecast *)

\* the seasonal strategy: the frames it appends to forecasts
ProphetStrategy(inf, trusted, g) ==
    LET prophet_forecast == forecast_prophet(inf.prophet, Periods)
    IN IF inf.prophet # NoModel /\ prophet_forecast # <<>>
       THEN <<[method |-> "prophet", frame |-> ProphetSanity(prophet_forecast, trusted, g)]>>
       ELSE <<>>

\* the classifier strategy
XgboostStrategy(inf, active_pipeline, last_date) ==
    LET total == forecast_xgboost(inf.xgboost, active_pipeline)
    IN IF inf.xgboost # NoModel /\ total > 0
       THEN <<[method |-> "xgboost", frame |-> FlatFrame(last_date, total \div 12, 700, 1300)]>>
       ELSE <<>>

\* a stage-weighted strategy that takes a failed lookup for an empty pipeline
PipelineUnguarded(inf, active_pipeline, trusted, last_date) ==
    <<[method |-> "pipeline",
       frame |-> FlatFrame(last_date,
                           IF forecast_pipeline(inf.rates, active_pipeline).forecast > 0
                           THEN forecast_pipeline(inf.rates, active_pipeline).forecast \div 12
                           ELSE 0, 800, 1200)]>>

\* the stage-weighted strategy, with the recent average when the pipeline gives nothing
PipelineStrategy(inf, active_pipeline, trusted, last_date) ==
    LET pipeline_result == forecast_pipeline(inf.rates, active_pipeline)
        hist == Revenues(trusted)
        monthly_pipeline ==
            IF pipeline_result.forecast = 0 /\ trusted # <<>>
            THEN Mean(TailN(hist, Min(12, Len(hist))))
            ELSE IF pipeline_result.forecast > 0 THEN pipeline_result.forecast \div 12 ELSE 0
    IN IF pipeline_result.raised THEN <<>>
       ELSE <<[method |-> "pipeline", frame |-> FlatFrame(last_date, monthly_pipeline, 800, 1200)]>>

\* the generator after the seasonal strategy: it reseeds and draws once per
\* period when it corrects a forecast against a history
AfterProphet(prophet, trusted, g) ==
    IF prophet # <<>> /\ trusted # <<>> /\ Len(prophet[1].frame) > 1
    THEN Advance(Reseeded(g), Len(prophet[1].frame))
    ELSE g

\* what a run that produced nothing leaves of the passes
NoPasses ==
    [combined |-> <<>>, clipped |-> <<>>, capped |-> <<>>, varied |-> <<>>,
     forecast |-> <<>>, sanity |-> FALSE, last_month |-> 0, max_reasonable |-> 0]

\* the final sanity check of the ensemble: the series after each pass
SanityPasses(combined, trusted, recent_std, g) ==
    LET hist == Revenues(trusted)
        recent_avg == Mean(RecentSample(trusted, 6))
        last_month == hist[Len(hist)]
        max_reasonable == MaxReasonable(MaxSeq(hist), recent_avg)
        clipped == ClipPass(combined)
        capped == CapPass(clipped, max_reasonable)
        varied == VariationPass(capped, CvRatio(recent_std, recent_avg), Reseeded(g))
    IN IF trusted = <<>>
       THEN [combined |-> combined, clipped |-> combined, capped |-> combined,
             varied |-> combined, forecast |-> combined, sanity |-> FALSE,
             last_month |-> 0, max_reasonable |-> 0]
       ELSE [combined |-> combined, clipped |-> clipped, capped |-> capped,
             varied |-> varied, forecast |-> TransitionPass(varied, last_month),
             sanity |-> TRUE, last_month |-> last_month, max_reasonable |-> max_reasonable]

\* a generate_12_month_forecast out of which a failed rate lookup propagates
GenerateWithoutGuard(series, active_pipeline, inf, g, clock) ==
    LET trusted == Trusted(series)
        last_date == LastDate(trusted, clock)
        recent_std == IF trusted = <<>> THEN NaN ELSE Std(RecentSample(trusted, 12))
        prophet == ProphetStrategy(inf, trusted, g)
        g1 == AfterProphet(prophet, trusted, g)
        stage_weighted == PipelineStrategy(inf, active_pipeline, trusted, last_date)
        forecasts == prophet \o XgboostStrategy(inf, active_pipeline, last_date)
                             \o stage_weighted
        combined == combine_forecasts(forecasts)
    IN IF stage_weighted = <<>>
       THEN [raised |-> TRUE, history |-> series, trusted |-> trusted, forecasts |-> <<>>,
             passes |-> NoPasses, rng |-> g1]
       ELSE [raised |-> FALSE, history |-> series, trusted |-> trusted, forecasts |-> forecasts,
             passes |-> SanityPasses(combined, trusted, recent_std, g1),
             rng |-> IF trusted # <<>> /\ Len(combined) > 1
                     THEN Advance(Reseeded(g1), Len(combined)) ELSE g1]

\* generate_12_month_forecast: raised (the no-forecast error), the history
\* trusted, the strategies' frames, the passes and the generator left behind
generate_12_month_forecast(series, active_pipeline, inf, g, clock) ==
    LET trusted == Trusted(series)
        last_date == LastDate(trusted, clock)
        recent_std == IF trusted = <<>> THEN NaN ELSE Std(RecentSample(trusted, 12))
        prophet == ProphetStrategy(inf, trusted, g)
        g1 == AfterProphet(prophet, trusted, g)
        forecasts == prophet \o XgboostStrategy(inf, active_pipeline, last_date)
                             \o PipelineStrategy(inf, active_pipeline, trusted, last_date)
        combined == combine_forecasts(forecasts)
    IN IF forecasts = <<>>
       THEN [raised |-> TRUE, history |-> series, trusted |-> trusted, forecasts |-> forecasts,
             passes |-> NoPasses, rng |-> g1]
       ELSE [raised |-> FALSE, history |-> series, trusted |-> trusted, forecasts |-> forecasts,
             passes |-> SanityPasses(combined, trusted, recent_std, g1),
             rng |-> IF trusted # <<>> /\ Len(combined) > 1
                     THEN Advance(Reseeded(g1), Len(combined)) ELSE g1]

----------------------------------------------------------------------------
(* ModelTrainer and the artifacts in model_dir *)

NoModels == [prophet |-> NoModel, xgboost |-> NoModel, rates |-> NoRates]

\* load_models: an artifact found replaces the attribute, a missing one leaves it
load_models(inf, d) ==
    [prophet |-> IF d.prophet # NoModel THEN d.prophet ELSE inf.prophet,
     xgboost |-> IF d.xgboost # NoModel THEN d.xgboost ELSE inf.xgboost,
     rates |-> IF d.rates # NoRates THEN d.rates ELSE inf.rates]

\* what a fit can learn of the yearly pattern
Shapes == {"seasonal", "trend"}

\* train_prophet: the model continues the series it was fitted to
train_prophet(series, shape) ==
    [kind |-> "prophet", last_ds |-> series[Len(series)].date,
     level |-> Mean(Revenues(series)), shape |-> shape]

\* a seasonal model needs two rows to fit
ProphetFits(series) == Len(series) >= 2

\* the classifier is trained on at least 50 leads with a known outcome
MinTrainingSamples == 50

KnownOutcomes(rows) ==
    LET Known(l) == l.current_stage \in {"completed", "lost", "cancelled"}
    IN Len(SelectSeq(rows, Known))

\* a classifier as train_xgboost saves it
TrainedClassifier == [kind |-> "xgboost", proba |-> 600]

\* train_all: each artifact is rewritten when its training succeeds
train_all(d, series, rows, shape) ==
    [d EXCEPT !.prophet = IF ProphetFits(series) THEN train_prophet(series, shape) ELSE @,
              !.xgboost = IF KnownOutcomes(rows) >= MinTrainingSamples
                          THEN TrainedClassifier ELSE @]

----------------------------------------------------------------------------
(* What a call leaves behind *)

\* the outcome of one call: its arguments, the ledger and models it worked
\* from, what generate_12_month_forecast computed, and the value returned
Outcome(op, status, csv_path, forecast_date, ledger, models, gen, returned) ==
    [op |-> op, status |-> status, csv_path |-> csv_path, forecast_date |-> forecast_date,
     ledger |-> ledger, clock |-> now, models |-> models,
     exclude_incomplete_months |-> ExcludeIncompleteMonths, start_date |-> None,
     history |-> gen.history, trusted |-> gen.trusted, forecasts |-> gen.forecasts,
     passes |-> gen.passes, returned |-> returned]

NoRun == [history |-> <<>>, trusted |-> <<>>, forecasts |-> <<>>, passes |-> NoPasses]

\* the wall clock when the objects are built
Now0 == MkDate(14, 28)

\* the reference dates a caller passes
ForecastDates == {None, MkDate(13, 20), MkDate(1, 1)}

\* the artifacts an earlier training left in model_dir
Artifacts ==
    [prophet : {NoModel,
                train_prophet(prepare_monthly_revenue("steady", None, 2).series, "seasonal"),
                train_prophet(prepare_monthly_revenue("dip", None, 2).series, "trend")},
     xgboost : {NoModel, TrainedClassifier},
     rates : {NoRates, SegmentedTable}]

NoArtifacts == NoModels

\* the objects as constructed, over the model_dir they find
Constructed(artifacts) ==
    /\ now = Now0
    /\ data = NoLedger
    /\ loader_data = NoLedger
    /\ loader_frame = <<>>
    /\ monthly_revenue = <<>>
    /\ mr_set = FALSE
    /\ disk \in artifacts
    /\ inference = NoModels
    /\ rng = rng0
    /\ result = Outcome("init", "ok", NoLedger, None, NoLedger, NoModels, NoRun, <<>>)

----------------------------------------------------------------------------
(* DataLoader on its own *)

\* the reference dates the loader is asked about
LoaderDates == ForecastDates \cup {MkDate(2, 20), MkDate(12, 20), MkDate(14, 10)}

\* DataLoader.load_csv
LoadCsv(csv_path) ==
    /\ loader_data' = csv_path
    /\ loader_frame' = Rows(csv_path)
    /\ result' = Outcome("load_csv", IF load_csv(csv_path) = "" THEN "ok" ELSE "load_error",
                         csv_path, None, csv_path, inference, NoRun, <<>>)
    /\ UNCHANGED <<now, data, monthly_revenue, mr_set, disk, inference, rng>>

\* the values of exclude_incomplete_months the loader is called with
IncompleteMonths == {1, ExcludeIncompleteMonths, 3}

\* DataLoader.prepare_monthly_revenue; the outcome keeps the series before step
\* 3 as history and the series after it as trusted
Prepare(forecast_date, exclude_incomplete_months) ==
    \E prepared \in {IF loader_data = NoLedger
                      THEN [raised |-> FALSE, series |-> <<>>, filled |-> <<>>,
                            after_step3 |-> <<>>]
                      ELSE prepare_monthly_revenue(loader_data, forecast_date,
                                                   exclude_incomplete_months)} :
       /\ result' =
            IF loader_data = NoLedger
            THEN Outcome("prepare", "no_data", NoLedger, forecast_date, loader_data,
                         inference, NoRun, <<>>)
            ELSE [Outcome("prepare", IF prepared.raised THEN "prepare_error" ELSE "ok",
                          NoLedger, forecast_date, loader_data, inference, NoRun,
                          prepared.series)
                    EXCEPT !.exclude_incomplete_months = exclude_incomplete_months,
                           !.history = prepared.filled,
                           !.trusted = prepared.after_step3]
       /\ UNCHANGED <<now, data, loader_data, loader_frame, monthly_revenue, mr_set, disk, inference, rng>>

\* DataLoader.get_active_pipeline
GetActivePipeline(forecast_date) ==
    /\ result' =
         IF loader_data = NoLedger
         THEN Outcome("get_active_pipeline", "no_data", NoLedger, forecast_date,
                      loader_data, inference, NoRun, <<>>)
         ELSE Outcome("get_active_pipeline", "ok", NoLedger, forecast_date, loader_data,
                      inference, NoRun,
                      get_active_pipeline(loader_data, forecast_date, now))
    /\ loader_frame' = IF loader_data = NoLedger THEN loader_frame
                       ELSE StoredAfterPipeline(loader_frame, forecast_date, now)
    /\ UNCHANGED <<now, data, loader_data, monthly_revenue, mr_set, disk, inference, rng>>

\* round(100 * count / prev_count, 1) in tenths of a percent, halves to even
RoundedShare(count, prev_count) ==
    LET q == (count * 1000) \div prev_count
        r == (count * 1000) % prev_count
    IN IF 2 * r > prev_count \/ (2 * r = prev_count /\ q % 2 = 1) THEN q + 1 ELSE q

\* the stages of the funnel and the column that dates each
FunnelStages == <<"inquiry", "quote_sent", "booked", "final_payment", "completed">>
StageDateColumn(stage) ==
    CASE stage = "inquiry" -> "inquiry_date" [] stage = "quote_sent" -> "quote_date"
      [] stage = "booked" -> "booking_date" [] stage = "final_payment" -> "final_payment_date"
      [] stage = "completed" -> "trip_date"

\* the funnel's rows: stage, count, conversionRate (NaN for None) and revenuePotential
FunnelRows(stage_order, selected) ==
    LET count(i) == Len(selected[stage_order[i]])
        revenue(i) == LET sel == selected[stage_order[i]]
                      IN SumSeq([j \in 1..Len(sel) |-> sel[j].trip_price])
    IN [i \in 1..Len(stage_order) |->
          [stage |-> stage_order[i],
           count |-> count(i),
           conversionRate |-> IF i = 1 THEN NaN
                              ELSE IF count(i - 1) > 0 THEN RoundedShare(count(i), count(i - 1))
                              ELSE 0,
           revenuePotential |-> revenue(i)]]

\* generate_funnel_data over the frame pipeline.data holds; <<>> is None
generate_funnel_data(rows, columns, start_date, end_date, clock) ==
    LET end_date_parsed == IF end_date = None THEN clock ELSE end_date
        InCohort(l) == /\ l.inquiry_date # NaT
                       /\ l.inquiry_date >= start_date /\ l.inquiry_date <= end_date_parsed
        cohort == SelectSeq(rows, InCohort)
        ReachedStage(stage) ==
            LET Dated(l) == l[StageDateColumn(stage)] # NaT
            IN IF StageDateColumn(stage) \in columns THEN SelectSeq(cohort, Dated) ELSE <<>>
        IsOpen(l) == /\ l.inquiry_date # NaT /\ l.inquiry_date <= end_date_parsed
                     /\ l.current_stage \in ActiveStages
        funnel_data_filtered == SelectSeq(rows, IsOpen)
        InStage(stage) ==
            LET Same(l) == l.current_stage = stage IN SelectSeq(funnel_data_filtered, Same)
    IN IF rows = <<>> \/ "current_stage" \notin columns THEN <<>>
       ELSE IF start_date # None
       THEN IF "inquiry_date" \notin columns \/ cohort = <<>> THEN <<>>
            ELSE FunnelRows(FunnelStages, [stage \in {FunnelStages[i] : i \in 1..Len(FunnelStages)} |->
                                 ReachedStage(stage)])
       ELSE IF funnel_data_filtered = <<>> THEN <<>>
            ELSE FunnelRows(SubSeq(FunnelStages, 1, 4),
                            [stage \in ActiveStages |-> InStage(stage)])

\* the date ranges a funnel is asked for: start_date, end_date
FunnelRanges == {<<None, None>>, <<MkDate(13, 1), MkDate(13, 20)>>}

\* generate_funnel_data(pipeline, start_date, end_date) on a pipeline whose data is
\* the frame load_csv returned: the object the loader keeps as its own data
Funnel(start_date, end_date) ==
    LET funnel_data == generate_funnel_data(loader_frame, File(loader_data).columns,
                                            start_date, end_date, now)
    IN /\ loader_data # NoLedger
       /\ load_csv(loader_data) = ""
       /\ result' = [Outcome("funnel", IF funnel_data = <<>> THEN "none" ELSE "ok", NoLedger,
                              end_date, loader_data, inference, NoRun, funnel_data)
                        EXCEPT !.start_date = start_date]
       /\ UNCHANGED <<now, data, loader_data, loader_frame, monthly_revenue, mr_set, disk,
                      inference, rng>>

\* the files the loader is given
LoaderPaths ==
    Paths \cup {"year365", "year366", "all_open", "undated", "no_booking_col", "resolved",
                "brief", "comped", "spike"}

InitLoader == Constructed({NoArtifacts})

NextLoader ==
    \/ \E csv_path \in LoaderPaths : LoadCsv(csv_path)
    \/ \E forecast_date \in LoaderDates, k \in IncompleteMonths : Prepare(forecast_date, k)
    \/ \E forecast_date \in LoaderDates : GetActivePipeline(forecast_date)
    \/ \E range \in FunnelRanges : Funnel(range[1], range[2])

SpecLoader == InitLoader /\ [][NextLoader]_vars

----------------------------------------------------------------------------
(* ForecastInference on its own *)

\* ForecastInference.load_models
LoadModels ==
    /\ inference' = load_models(inference, disk)
    /\ result' = Outcome("load_models", "ok", NoLedger, None, NoLedger,
                         load_models(inference, disk), NoRun, <<>>)
    /\ UNCHANGED <<now, data, loader_data, loader_frame, monthly_revenue, mr_set, disk, rng>>

\* what generate_12_month_forecast returns or raises, as an outcome
Generated(op, csv_path, forecast_date, ledger, models, gen) ==
    Outcome(op, IF gen.raised THEN "no_forecast" ELSE "ok", csv_path, forecast_date,
            ledger, models, gen, gen.passes.forecast)

\* ForecastInference.generate_12_month_forecast on the series and the active
\* pipeline the loader gives for a ledger and a reference date
Generate(ledger, forecast_date) ==
    \E prepared \in {prepare_monthly_revenue(ledger, forecast_date, ExcludeIncompleteMonths)},
       active_pipeline \in {get_active_pipeline(ledger, forecast_date, now)} :
    \E gen \in {generate_12_month_forecast(prepared.series, active_pipeline, inference,
                                            rng, now)} :
       /\ ~prepared.raised
       /\ rng' = gen.rng
       /\ result' = Generated("generate", NoLedger, forecast_date, ledger, inference, gen)
       /\ UNCHANGED <<now, data, loader_data, loader_frame, monthly_revenue, mr_set, disk, inference>>

InitInference == Constructed(Artifacts)

\* the ledgers whose monthly series are handed to generate_12_month_forecast
InferencePaths == Paths \cup {"brief", "unpaid"}

NextInference ==
    \/ LoadModels
    \/ \E ledger \in InferencePaths, forecast_date \in ForecastDates : Generate(ledger, forecast_date)

SpecInference == InitInference /\ [][NextInference]_vars

----------------------------------------------------------------------------
(* ForecastInference: the stage-weighted strategy over its rate tables *)

\* the ledgers whose active pipelines are forecast
StagePaths == {"steady", "mixed", "unflagged", "dormant", "future"}

\* the reference dates they are forecast at
StageDates == {None, MkDate(19, 20)}

\* the conversion-rate artifacts model_dir may hold
StageArtifacts ==
    [prophet : {NoModel}, xgboost : {NoModel},
     rates : {NoRates, SegmentedTable, FlatTable, EstimatedTable}]

\* ForecastInference.forecast_pipeline on the active pipeline of a ledger
ForecastPipeline(ledger, forecast_date) ==
    \E active_pipeline \in {get_active_pipeline(ledger, forecast_date, now)} :
    \E pipeline_result \in {forecast_pipeline(inference.rates, active_pipeline)} :
       /\ result' = Outcome("forecast_pipeline",
                            IF pipeline_result.raised THEN "lookup_error" ELSE "ok",
                            NoLedger, forecast_date, ledger, inference, NoRun,
                            pipeline_result)
       /\ UNCHANGED <<now, data, loader_data, loader_frame, monthly_revenue, mr_set, disk,
                      inference, rng>>

InitStage == Constructed(StageArtifacts)

NextStage ==
    \/ LoadModels
    \/ \E ledger \in StagePaths, forecast_date \in StageDates :
          ForecastPipeline(ledger, forecast_date)
    \/ \E ledger \in StagePaths, forecast_date \in StageDates : Generate(ledger, forecast_date)

SpecStage == InitStage /\ [][NextStage]_vars

----------------------------------------------------------------------------
(* EnsemblePipeline *)

\* the ledgers handed to one pipeline instance
PipelinePaths == {"steady", "dip", "short"}

\* the reference dates handed to one pipeline instance
PipelineDates == {None, MkDate(1, 1)}

\* EnsemblePipeline.train
Train(csv_path) ==
    \E prepared \in {prepare_monthly_revenue(csv_path, None, ExcludeIncompleteMonths)} :
       /\ loader_data' = csv_path
       /\ loader_frame' = Rows(csv_path)
       /\ IF load_csv(csv_path) # ""
          THEN /\ result' = Outcome("train", "load_error", csv_path, None, csv_path,
                                    inference, NoRun, <<>>)
               /\ UNCHANGED <<data, monthly_revenue, mr_set, disk>>
          ELSE /\ data' = csv_path
               /\ IF prepared.raised
                  THEN /\ result' = Outcome("train", "prepare_error", csv_path, None,
                                            csv_path, inference, NoRun, <<>>)
                       /\ UNCHANGED <<monthly_revenue, mr_set, disk>>
                  ELSE /\ monthly_revenue' = prepared.series
                       /\ mr_set' = TRUE
                       /\ \E shape \in Shapes :
                            disk' = train_all(disk, prepared.series, Rows(csv_path), shape)
                       /\ result' = Outcome("train", "ok", csv_path, None, csv_path,
                                            inference, NoRun, <<>>)
       /\ UNCHANGED <<now, inference, rng>>

\* EnsemblePipeline.forecast once a ledger is held: prepare_monthly_revenue,
\* load_models, get_active_pipeline, generate_12_month_forecast
ForecastFrom(csv_path, forecast_date, ledger, held) ==
    \E prepared \in {prepare_monthly_revenue(ledger, forecast_date, ExcludeIncompleteMonths)},
       models \in {load_models(inference, disk)},
       active_pipeline \in {get_active_pipeline(ledger, forecast_date, now)} :
    \E gen \in {generate_12_month_forecast(prepared.series, active_pipeline, models, rng, now)} :
       IF prepared.raised
       THEN /\ result' = Outcome("forecast", "prepare_error", csv_path, forecast_date,
                                 ledger, inference, NoRun, <<>>)
            /\ loader_frame' = held
            /\ UNCHANGED <<monthly_revenue, mr_set, inference, rng>>
       ELSE /\ monthly_revenue' = prepared.series
            /\ loader_frame' = StoredAfterPipeline(held, forecast_date, now)
            /\ mr_set' = TRUE
            /\ inference' = models
            /\ rng' = gen.rng
            /\ result' = Generated("forecast", csv_path, forecast_date, ledger, models, gen)

\* EnsemblePipeline.forecast
Forecast(csv_path, forecast_date) ==
    /\ IF data # NoLedger
       THEN /\ ForecastFrom(csv_path, forecast_date, loader_data, loader_frame)
            /\ UNCHANGED <<data, loader_data>>
       ELSE IF csv_path = NoLedger
       THEN /\ result' = Outcome("forecast", "no_csv", csv_path, forecast_date,
                                 loader_data, inference, NoRun, <<>>)
            /\ UNCHANGED <<data, loader_data, loader_frame, monthly_revenue, mr_set, inference, rng>>
       ELSE /\ loader_data' = csv_path
            /\ IF load_csv(csv_path) # ""
               THEN /\ result' = Outcome("forecast", "load_error", csv_path, forecast_date,
                                         csv_path, inference, NoRun, <<>>)
                    /\ loader_frame' = Rows(csv_path)
                    /\ UNCHANGED <<data, monthly_revenue, mr_set, inference, rng>>
               ELSE /\ data' = csv_path
                    /\ ForecastFrom(csv_path, forecast_date, csv_path, Rows(csv_path))
    /\ UNCHANGED <<now, disk>>

\* a month passes on the wall clock
Tick ==
    /\ MonthOf(now) < MonthOf(Now0) + MaxTicks
    /\ now' = now + 100
    /\ UNCHANGED <<data, loader_data, loader_frame, monthly_revenue, mr_set, disk, inference, rng, result>>

\* model_dir as a pipeline finds it
PipelineArtifacts == {a \in Artifacts : a.xgboost = NoModel /\ a.prophet.kind = "none"}

Init == Constructed(PipelineArtifacts)

Next ==
    \/ \E csv_path \in PipelinePaths : Train(csv_path)
    \/ \E csv_path \in PipelinePaths \cup {NoLedger}, forecast_date \in PipelineDates :
          Forecast(csv_path, forecast_date)
    \/ Tick

Spec == Init /\ [][Next]_vars

----------------------------------------------------------------------------
(* The ensemble's length, its combination and its failure *)

\* the last call was generate_12_month_forecast and it returned a series
Returned == result.op = "generate" /\ result.status = "ok"

\* C1: whenever at least one of the three strategies produced output, the
\* series generate_12_month_forecast returns has exactly 12 monthly rows
C1_TwelveRows ==
    (result.op = "generate" /\ result.forecasts # <<>>) => Len(result.returned) = Periods

Cols == {"forecast", "lower", "upper"}

Covers(f, m) == m \in FrameDates(f.frame)

\* the sum of the weights of the strategies that cover month m
CoveringWeight(forecasts, m) ==
    SumSeq([k \in 1..Len(forecasts) |->
              IF Covers(forecasts[k], m) THEN ensemble_weights(forecasts[k].method) ELSE 0])

\* the weighted sum of a column over the strategies that cover month m
CoveringSum(forecasts, m, col) ==
    SumSeq([k \in 1..Len(forecasts) |->
              IF Covers(forecasts[k], m)
              THEN ensemble_weights(forecasts[k].method)
                     * (LET f == forecasts[k].frame
                            i == CHOOSE j \in 1..Len(f) : f[j].date = m
                        IN f[i][col])
              ELSE 0])

\* C2: for each month of the union, the combined point, lower and upper are
\* the weighted sum over the strategies covering the month divided by the
\* sum of the weights of exactly those strategies
C2_DividesByCoveringWeight ==
    Returned =>
        \A i \in 1..Len(result.passes.combined) : \A col \in Cols :
            LET row == result.passes.combined[i]
            IN row[col] = CoveringSum(result.forecasts, row.date, col)
                            \div CoveringWeight(result.forecasts, row.date)

\* every strategy of the run covers the same months
SameMonths(forecasts) ==
    \A k \in 1..Len(forecasts) : FrameDates(forecasts[k].frame) = FrameDates(forecasts[1].frame)

\* the default weights, in hundredths
DefaultWeight(method) ==
    CASE method = "prophet" -> 40 [] method = "xgboost" -> 30 [] method = "pipeline" -> 30

\* sum(w_i * v_i) / sum(w_i) over the strategies present, for row i
Renormalised(forecasts, i, col) ==
    SumSeq([k \in 1..Len(forecasts) |->
              DefaultWeight(forecasts[k].method) * forecasts[k].frame[i][col]])
      \div SumSeq([k \in 1..Len(forecasts) |-> DefaultWeight(forecasts[k].method)])

\* C3: with the default weights, for every non-empty subset of strategies over
\* the same 12 months, each month's combined point, lower and upper equals
\* sum(w_i * v_i) / sum(w_i) over the strategies present
C3_Renormalised ==
    (Returned /\ SameMonths(result.forecasts)) =>
        /\ Len(result.passes.combined) = Periods
        /\ \A i \in 1..Periods : \A col \in Cols :
              result.passes.combined[i][col] = Renormalised(result.forecasts, i, col)

\* two strategies over the same months, combined to a positive value
C3_Witness ==
    /\ Returned
    /\ SameMonths(result.forecasts)
    /\ Len(result.forecasts) = 2
    /\ result.passes.combined[1].forecast > 0

\* the active pipeline the last call worked from
ActiveOf(r) == get_active_pipeline(r.ledger, r.forecast_date, r.clock)

\* none of the three strategies produced output: no seasonal model, no
\* classifier or a zero total, and a stage-weighted lookup that raised
NoStrategyOutput(r) ==
    /\ r.models.prophet = NoModel
    /\ r.models.xgboost = NoModel \/ forecast_xgboost(r.models.xgboost, ActiveOf(r)) <= 0
    /\ forecast_pipeline(r.models.rates, ActiveOf(r)).raised

\* C4: generate_12_month_forecast fails with the no-forecast error if and only
\* if none of the three strategies produced output; otherwise it returns a series
C4_NoForecastIffNoOutput ==
    result.op = "generate" =>
        /\ result.status = "no_forecast" <=> NoStrategyOutput(result)
        /\ ~NoStrategyOutput(result) => (result.status = "ok" /\ result.returned # <<>>)

\* the no-forecast error was raised
C4_Witness == result.op = "generate" /\ result.status = "no_forecast"

----------------------------------------------------------------------------
(* The sanity passes *)

\* C5: whenever the first forecast month is more than 1.3 times the last
\* trusted historical month before transition smoothing (that month being
\* positive), it is at most 1.3 times that month after smoothing
C5_SmoothedWithinRatio ==
    (/\ Returned
     /\ result.passes.sanity
     /\ result.passes.last_month > 0
     /\ result.passes.varied[1].forecast * 10 > 13 * result.passes.last_month)
    => result.returned[1].forecast * 10 <= 13 * result.passes.last_month

\* lower <= point <= upper in every month of a series
Ordered(frame) ==
    \A i \in 1..Len(frame) :
        frame[i].lower <= frame[i].forecast /\ frame[i].forecast <= frame[i].upper

\* C6: given lower <= point <= upper in the combined series, it holds in
\* every month after the non-negativity clip, after the maximum cap, after
\* variance injection and after transition smoothing
C6_OrderedAfterEachPass ==
    (Returned /\ result.passes.sanity /\ Ordered(result.passes.combined))
    => /\ Ordered(result.passes.clipped)
       /\ Ordered(result.passes.capped)
       /\ Ordered(result.passes.varied)
       /\ Ordered(result.passes.forecast)

\* the months of a series are consecutive and increasing
Consecutive(frame) == \A i \in 1..(Len(frame) - 1) : frame[i + 1].date = frame[i].date + 1

\* C8: the dates of the ensemble forecast are consecutive months in increasing
\* order, the first being the month after the last trusted historical month
C8_StartsAfterHistory ==
    (Returned /\ result.trusted # <<>>)
    => /\ Consecutive(result.returned)
       /\ result.returned[1].date = result.trusted[Len(result.trusted)].date + 1

----------------------------------------------------------------------------
(* The monthly series *)

\* the zero-filled series before any trimming, for the call's ledger and date
Untrimmed(r) == ZeroFilled(CompletedFor(Rows(r.ledger), r.forecast_date))

IsPrefix(s, t) == Len(s) <= Len(t) /\ s = SubSeq(t, 1, Len(s))

\* C7: the series prepare_monthly_revenue returns has one row per calendar
\* month with no gap, and the months trimmed are a consecutive suffix of the
\* zero-filled untrimmed series
C7_ContiguousPrefix ==
    (result.op = "prepare" /\ result.status = "ok" /\ result.returned # <<>>)
    => /\ Consecutive(result.returned)
       /\ IsPrefix(result.returned, Untrimmed(result))

\* step 3 trimmed two months or more
C7_Witness ==
    /\ result.op = "prepare"
    /\ result.status = "ok"
    /\ result.returned # <<>>
    /\ Len(result.returned) + 2 <= Len(Untrimmed(result))

----------------------------------------------------------------------------
(* Runs of one pipeline *)

\* two forecast calls in a row with the same ledger, the same reference date
\* (the wall clock when none is passed) and the same trained artifacts
SameRun ==
    /\ result.op = "forecast" /\ result.status = "ok"
    /\ result'.op = "forecast" /\ result'.status = "ok"
    /\ result'.ledger = result.ledger
    /\ result'.forecast_date = result.forecast_date
    /\ result'.models = result.models
    /\ result.forecast_date = None => result'.clock = result.clock

\* C9: given the same ledger, the same reference date and the same trained
\* artifacts, two forecast runs return identical series
C9_SameInputsSameSeries == [][SameRun => result'.returned = result.returned]_vars

\* C10: forecast(csv_path, forecast_date) computes its result from the ledger
\* in the csv_path passed to that call
C10_UsesPassedLedger ==
    (result.op = "forecast" /\ result.status = "ok" /\ result.csv_path # NoLedger)
    => result.ledger = result.csv_path

----------------------------------------------------------------------------
(* The conversion rates of the stage-weighted strategy *)

\* the last call was forecast_pipeline on a pipeline with leads
PipelineForecast == result.op = "forecast_pipeline" /\ ActiveOf(result) # <<>>

\* the four fallback rates, per-mille
FallbackRates == [inquiry |-> 150, quote_sent |-> 350, booked |-> 900, final_payment |-> 980]

\* the rate the lookup order gives a lead: the exact segment, then the
\* table's flat rate of the stage, the fallback rates without any table
RateInOrder(table, lead) ==
    LET key == <<lead.current_stage, lead.lead_source, lead.is_repeat_customer>>
    IN IF table = NoRates THEN FallbackRates[lead.current_stage]
       ELSE IF table.kind = "segmented" /\ key \in DOMAIN table.segmented_rates
       THEN table.segmented_rates[key]
       ELSE table.flat_rates[lead.current_stage]

\* C11: for every active lead forecast_pipeline uses the segmented rate of
\* (stage, lead_source, repeat flag) when the loaded table has that key and
\* otherwise the table's flat rate of the stage; the hardcoded rates are used
\* if and only if no table was loaded, and the result then reports
\* rates_source = 'hardcoded' with those four rates
C11_LookupOrder ==
    PipelineForecast =>
        /\ result.status = "ok"
        /\ \A i \in 1..Len(ActiveOf(result)) :
              result.returned.conversion_rate[i]
                 = RateInOrder(result.models.rates, ActiveOf(result)[i])
        /\ result.returned.rates_source = "hardcoded" <=> result.models.rates = NoRates
        /\ result.models.rates = NoRates => result.returned.flat_rates = FallbackRates

\* the sum over the leads of trip price times the rate the lookup order gives
TotalInOrder(table, active_pipeline) ==
    SumSeq([i \in 1..Len(active_pipeline) |->
              Scale(active_pipeline[i].trip_price, RateInOrder(table, active_pipeline[i]), 1000)])

\* the frames of the stage-weighted strategy in the last run
PipelineFrames(r) ==
    LET IsPipeline(f) == f.method = "pipeline"
    IN SelectSeq(r.forecasts, IsPipeline)

\* C12: the total of forecast_pipeline is the sum over the leads of trip price
\* times the looked-up rate, and when the total is positive the stage-weighted
\* series has point = total / 12 in each of 12 months, lower = 0.8 * point and
\* upper = 1.2 * point
C12_TotalAndMonthlyShare ==
    /\ (PipelineForecast /\ result.status = "ok")
         => result.returned.forecast
              = SumSeq([i \in 1..Len(ActiveOf(result)) |->
                          Scale(ActiveOf(result)[i].trip_price,
                                result.returned.conversion_rate[i], 1000)])
    /\ (/\ result.op = "generate"
         /\ PipelineFrames(result) # <<>>
         /\ TotalInOrder(result.models.rates, ActiveOf(result)) > 0)
         => LET point == TotalInOrder(result.models.rates, ActiveOf(result)) \div 12
                series == PipelineFrames(result)[1].frame
            IN /\ Len(series) = 12
               /\ \A i \in 1..12 :
                     /\ series[i].forecast = point
                     /\ series[i].lower = (point * 8) \div 10
                     /\ series[i].upper = (point * 12) \div 10

\* one inquiry lead of $10,000 at the rate 0.15: $125 a month within [$100, $150]
C12_Witness ==
    /\ result.op = "generate"
    /\ result.ledger = "steady"
    /\ result.models.rates = NoRates
    /\ PipelineFrames(result) # <<>>
    /\ PipelineFrames(result)[1].frame[1].forecast = 125
    /\ PipelineFrames(result)[1].frame[1].lower = 100
    /\ PipelineFrames(result)[1].frame[1].upper = 150

\* C13: after EnsemblePipeline.train completes on a valid ledger the artifact
\* stage_conversion_rates.pkl is in the model directory, and load_models on a
\* fresh ForecastInference then yields a rate table, so that forecast_pipeline
\* uses empirical rates and not the hardcoded ones
C13_TrainWritesRates ==
    (result.op = "train" /\ result.status = "ok")
    => /\ disk.rates # NoRates
       /\ load_models(NoModels, disk).rates # NoRates
       /\ \A ledger \in PipelinePaths :
             forecast_pipeline(load_models(NoModels, disk).rates,
                               get_active_pipeline(ledger, None, now)).rates_source
                # "hardcoded"

HasSignal(series) == \E i \in 1..Len(series) : series[i].revenue > 0

\* C15: whenever the monthly history has a month with positive revenue, the
\* 12-month series of the stage-weighted strategy is not all zero, for every
\* active pipeline; for an empty pipeline, or one whose weighted total is
\* zero, the monthly value is the mean revenue of the last min(12, n) months
C15_NeverAllZero ==
    (result.op = "generate" /\ PipelineFrames(result) # <<>> /\ HasSignal(result.trusted))
    => LET series == PipelineFrames(result)[1].frame
           hist == Revenues(result.trusted)
       IN /\ \E i \in 1..Len(series) : series[i].forecast # 0
          /\ TotalInOrder(result.models.rates, ActiveOf(result)) = 0
               => \A i \in 1..Len(series) :
                     series[i].forecast = Mean(TailN(hist, Min(12, Len(hist))))

----------------------------------------------------------------------------
(* The loader *)

\* the completed leads of a ledger that have a trip date
CompletedTrips(path) ==
    LET Done(l) == l.current_stage = "completed" /\ l.trip_date # NaT
    IN SelectSeq(Rows(path), Done)

\* the days between the earliest and the latest completed trip
SpanDays(path) ==
    LET dates == {CompletedTrips(path)[i].trip_date : i \in 1..Len(CompletedTrips(path))}
        first == CHOOSE d \in dates : \A e \in dates : d <= e
        last == CHOOSE d \in dates : \A e \in dates : d >= e
    IN DaysBetween(last, first)

\* C16: load_csv raises a validation error when a required column is missing,
\* when no completed lead has a trip date, or when the span between the
\* earliest and the latest completed trip date (in years of 365.25 days) is
\* below min_years, a span equal to the minimum being accepted, and in no
\* other case; otherwise it returns the parsed ledger
C16_LoadErrors ==
    result.op = "load_csv" =>
        /\ result.status = "load_error"
             <=> \/ \E col \in {"inquiry_date", "trip_price", "current_stage", "trip_date",
                                  "booking_date"} : col \notin File(result.ledger).columns
                 \/ CompletedTrips(result.ledger) = <<>>
                 \/ SpanDays(result.ledger) * 10000 < 365 * 10000 + 2500
        /\ result.status # "load_error"
             => (result.status = "ok" /\ loader_frame = Rows(result.ledger))

\* a ledger of 365 days is refused, as 0.9993 years
C16_Witness ==
    /\ result.op = "load_csv"
    /\ result.status = "load_error"
    /\ result.ledger = "year365"
    /\ SpanDays(result.ledger) = 365

\* the reference date of a call: the date passed, else the wall clock
ReferenceDate(r) == IF r.forecast_date = None THEN r.clock ELSE r.forecast_date

\* the last call was get_active_pipeline on a loaded ledger
Snapshot == result.op = "get_active_pipeline" /\ result.status = "ok"

\* a lead in an active stage, inquired on or before the reference date
OpenLead(l, ref) ==
    l.current_stage \in {"inquiry", "quote_sent", "booked", "final_payment"}
    /\ l.inquiry_date # NaT /\ l.inquiry_date <= ref

\* how many entries of a snapshot carry the lead's id
Entries(snapshot, l) == Cardinality({j \in 1..Len(snapshot) : snapshot[j].lead_id = l.lead_id})

\* the snapshot holds exactly the open leads as they are and the leads
\* selected by ToCome with the stage final_payment, each once
SnapshotIs(r, ToCome(_, _)) ==
    LET rows == Rows(r.ledger)
        ref == ReferenceDate(r)
        snapshot == r.returned
    IN /\ \A i \in 1..Len(rows) :
             Entries(snapshot, rows[i])
                = IF OpenLead(rows[i], ref) \/ ToCome(rows[i], ref) THEN 1 ELSE 0
       /\ \A j \in 1..Len(snapshot) : \E i \in 1..Len(rows) :
             /\ rows[i].lead_id = snapshot[j].lead_id
             /\ snapshot[j] = IF ToCome(rows[i], ref)
                              THEN [rows[i] EXCEPT !.current_stage = "final_payment"]
                              ELSE rows[i]
       /\ \A j \in 1..Len(snapshot) :
             snapshot[j].current_stage \in {"inquiry", "quote_sent", "booked", "final_payment"}

\* a resolved lead (completed, lost or cancelled) with its trip after the date
ResolvedToCome(l, ref) ==
    l.current_stage \in {"completed", "lost", "cancelled"}
    /\ l.trip_date # NaT /\ l.trip_date > ref

\* a completed lead with its trip after the date
CompletedToCome(l, ref) ==
    l.current_stage = "completed" /\ l.trip_date # NaT /\ l.trip_date > ref

\* C17 as stated: get_active_pipeline returns, each once and no other, every
\* lead in an active stage inquired on or before the reference date and every
\* resolved lead (completed, lost or cancelled) whose trip date is after the
\* reference date, the latter with the stage final_payment
C17_ActiveAndResolved == Snapshot => SnapshotIs(result, ResolvedToCome)

\* C17 as amended: of the resolved leads, the completed ones alone are
\* returned (as final_payment) when their trip date is after the reference
\* date; a lost or cancelled lead is never returned
C17_ActiveAndCompleted == Snapshot => SnapshotIs(result, CompletedToCome)

\* a snapshot with a completed lead relabelled and a lost lead with a trip to
\* come left out
C17_Witness ==
    /\ Snapshot
    /\ result.ledger = "resolved"
    /\ \E j \in 1..Len(result.returned) :
          result.returned[j].lead_id = 143 /\ result.returned[j].current_stage = "final_payment"
    /\ \A j \in 1..Len(result.returned) : result.returned[j].lead_id # 141
    /\ ResolvedToCome(Rows("resolved")[15], ReferenceDate(result))


\* how many leads of the ledger carry the raw stage and were inquired by the date
RawCount(ledger, stage, end) ==
    Cardinality({i \in 1..Len(Rows(ledger)) :
                    /\ Rows(ledger)[i].current_stage = stage
                    /\ Rows(ledger)[i].inquiry_date # NaT
                    /\ Rows(ledger)[i].inquiry_date <= end})

\* the funnel's final_payment row counts no more leads than the ledger's raw
\* final_payment leads, and without a cohort every row is the raw count
FunnelFromRawStages(r) ==
    \A i \in 1..Len(r.returned) :
       LET row == r.returned[i]
       IN /\ row.stage = "final_payment"
                => row.count <= RawCount(r.ledger, "final_payment", ReferenceDate(r))
          /\ r.start_date = None
                => row.count = RawCount(r.ledger, row.stage, ReferenceDate(r))

RevenueBy(ledger, m, ref) ==
    LET Counted(l) == IsCompletedTrip(l) /\ MonthOf(l.trip_date) = m /\ l.trip_date <= ref
        trips == SelectSeq(Rows(ledger), Counted)
    IN SumSeq([i \in 1..Len(trips) |-> trips[i].trip_price])

\* C19: prepare_monthly_revenue aggregates only the completed leads whose trip
\* date is on or before the reference date, the current time when no date is
\* passed: every month of the series is at most the month of the reference
\* date and its revenue is that of the trips taken by then, so a completed
\* lead with its trip after now contributes to no month
C19_OnlyTripsByReference ==
    result.op = "prepare" /\ result.status = "ok" =>
       \A j \in 1..Len(result.returned) :
          /\ result.returned[j].date <= MonthOf(ReferenceDate(result))
          /\ result.returned[j].revenue
                = RevenueBy(result.ledger, result.returned[j].date, ReferenceDate(result))


\* the months of a series that have trips, the last six of them at most
BaselineMonths(series) ==
    LET with_trips == {i \in 1..Len(series) : series[i].trip_count > 0}
    IN {i \in with_trips : Cardinality({j \in with_trips : j > i}) < 6}

\* the month is among the last min(k+2, n) and is below 50% of the baseline
\* trip count, below 30% of the baseline revenue, or below $1000
FlaggedMonth(series, k, i) ==
    LET base == BaselineMonths(series)
        trips == SumSeq([j \in 1..Len(series) |->
                            IF j \in base THEN series[j].trip_count ELSE 0])
        revenue == SumSeq([j \in 1..Len(series) |->
                              IF j \in base THEN series[j].revenue ELSE 0])
    IN /\ i > Len(series) - Min(k + 2, Len(series))
       /\ \/ series[i].trip_count * 2 * Cardinality(base) < trips
          \/ series[i].revenue * 10 * Cardinality(base) < 3 * revenue
          \/ series[i].revenue < 1000

\* the months of the flagged run that ends at the most recent month
TrailingRun(series, k) ==
    {i \in 1..Len(series) : \A j \in i..Len(series) : FlaggedMonth(series, k, j)}

\* the last call was prepare_monthly_revenue and it reached step 3
Stepped == result.op = "prepare" /\ result.history # <<>>

\* C20: step 3 runs when the series has more than k months; it flags a month
\* among the last min(k+2, n) iff its trip count is below 50% of the baseline,
\* its revenue below 30% of the baseline or below $1000, the baseline being
\* the mean over the last six months at most that have trips; it removes
\* exactly the flagged run that ends at the most recent month, and a flagged
\* month before a non-flagged one stays
C20_RemovesTrailingRun ==
    Stepped =>
       LET series == result.history
           k == result.exclude_incomplete_months
           removed == IF Len(series) > k THEN TrailingRun(series, k) ELSE {}
       IN result.trusted = SubSeq(series, 1, Len(series) - Cardinality(removed))

\* step 3 removed a run and left a flagged month that lies before a
\* non-flagged one
C20_Witness ==
    /\ Stepped
    /\ Len(result.trusted) < Len(result.history)
    /\ \E i \in 1..Len(result.trusted) :
          FlaggedMonth(result.history, result.exclude_incomplete_months, i)


\* the series without its last month when that month's revenue is below 20%
\* of the revenue of the month before it
WithoutLowLast(series) ==
    IF Len(series) >= 2 /\ series[Len(series)].revenue * 5 < series[Len(series) - 1].revenue
    THEN SubSeq(series, 1, Len(series) - 1)
    ELSE series

\* C21: the secondary anomaly check is applied after step 3, to the series
\* step 3 produced, whether or not step 3 ran or removed anything: the series
\* returned is that series without its last month if the last month's revenue
\* is below 20% of the second-to-last month's, and that series otherwise
C21_SecondaryAfterStep3 ==
    Stepped /\ result.status = "ok" => result.returned = WithoutLowLast(result.trusted)


----------------------------------------------------------------------------
(* The transition from the history to the forecast *)

\* a series was generated and went through the sanity passes
Checked == result.op \in {"generate", "forecast"} /\ result.status = "ok" /\ result.passes.sanity

\* transition smoothing fired: the first month before the pass is more than
\* 30% above the last historical month
Smoothed ==
    /\ Checked
    /\ ~IsNaN(result.passes.varied[1].forecast)
    /\ \/ result.passes.last_month <= 0
       \/ result.passes.varied[1].forecast * 10 > result.passes.last_month * 13

\* the forecast weight of month i, per-mille, rising linearly from 20% in
\* month 1 to 100% in month 3
LinearWeight(i) == 200 + (i - 1) * 400

\* C22: when transition smoothing fires, forecast month i (i = 1, 2, 3)
\* becomes w_i * (the forecast of month i before the pass) + (1 - w_i) * (the
\* last historical month's revenue), with w_1 = 0.2 rising linearly to
\* w_3 = 1.0
C22_BlendReachesForecast ==
    Smoothed =>
       \A i \in 1..Min(3, Len(result.returned)) :
          ~IsNaN(result.passes.varied[i].forecast) =>
             result.returned[i].forecast
                = (result.passes.varied[i].forecast * LinearWeight(i)
                    + result.passes.last_month * (1000 - LinearWeight(i))) \div 1000


\* C23: transition smoothing leaves months 4 to 12 untouched: the point
\* estimate, the lower bound and the upper bound of each are after the pass
\* what they were before it
C23_LaterMonthsUntouched ==
    Smoothed =>
       \A i \in 4..Len(result.returned) :
          /\ result.returned[i].forecast = result.passes.varied[i].forecast
          /\ result.returned[i].lower = result.passes.varied[i].lower
          /\ result.returned[i].upper = result.passes.varied[i].upper


----------------------------------------------------------------------------
(* A strategy that fails *)

\* the rate lookup of the stage-weighted strategy raised: a segmented table
\* is loaded and an active lead has no repeat-customer flag
LookupRaised(r) ==
    /\ r.op = "generate"
    /\ r.models.rates.kind = "segmented"
    /\ \E i \in 1..Len(ActiveOf(r)) : IsNaN(ActiveOf(r)[i].is_repeat_customer)

\* what the seasonal and the classifier strategies produce on their own
OtherStrategies(r) ==
    ProphetStrategy(r.models, r.trusted, rng0)
        \o XgboostStrategy(r.models, ActiveOf(r), LastDate(r.trusted, r.clock))

----------------------------------------------------------------------------
(* The cap *)

\* every point estimate after the cap pass is at most the cap
CappedBelowMax(r) ==
    \A i \in 1..Len(r.passes.capped) :
       IsNaN(r.passes.capped[i].forecast)
          \/ r.passes.capped[i].forecast <= r.passes.max_reasonable

\* the upper bound of a month the cap lowered is lowered in the same
\* proportion, to the dollar
UpperInProportion(r) ==
    \A i \in 1..Len(r.passes.capped) :
       LET before == r.passes.clipped[i]
           after == r.passes.capped[i]
       IN ~IsNaN(before.forecast) /\ after.forecast < before.forecast =>
             Abs(after.upper * before.forecast - before.upper * after.forecast)
                <= before.forecast

\* C25: after the cap pass every month's point estimate is at most
\* max(1.5 * historical maximum, 2 * recent average), and the upper bound of
\* each capped month is rescaled in proportion to the reduction of its point
\* estimate
C25_CappedInProportion ==
    Checked => CappedBelowMax(result) /\ UpperInProportion(result)


----------------------------------------------------------------------------
(* Numeric edge cases *)

\* the call is in one of the edge cases: a recent average of zero, a last
\* historical month of zero, an empty active pipeline, or a single-row history
EdgeCase(r) ==
    /\ r.op = "generate"
    /\ \/ ActiveOf(r) = <<>>
       \/ Len(r.trusted) = 1
       \/ r.trusted # <<>> /\ r.trusted[Len(r.trusted)].revenue = 0
       \/ r.trusted # <<>> /\ Mean(RecentSample(r.trusted, 6)) = 0

\* every point estimate and bound of the series is a number
AllDefined(frame) ==
    \A i \in 1..Len(frame) :
       ~IsNaN(frame[i].forecast) /\ ~IsNaN(frame[i].lower) /\ ~IsNaN(frame[i].upper)

\* C26: in the edge cases (a recent historical average of zero, a last
\* historical month with zero revenue, an empty active pipeline, a monthly
\* series with a single row) generate_12_month_forecast does not raise and
\* every point estimate and bound it returns is a defined number
C26_EdgeCasesDefined ==
    EdgeCase(result) /\ ~NoStrategyOutput(result) =>
       result.status = "ok" /\ result.returned # <<>> /\ AllDefined(result.returned)


----------------------------------------------------------------------------
(* A rejected ledger *)

\* C27: on one EnsemblePipeline instance, every forecast call that returns a
\* result computed it from a ledger that passed load_csv validation; a ledger
\* load_csv rejected is never used by a later call
C27_NeverUsesRejectedLedger ==
    result.op = "forecast" /\ result.status = "ok" => load_csv(result.ledger) = ""


----------------------------------------------------------------------------
(* The final series *)

\* generate_12_month_forecast, called directly or through forecast, returned a series
Produced == result.op \in {"generate", "forecast"} /\ result.status = "ok"

\* C28: every point estimate, lower bound and upper bound of the series
\* generate_12_month_forecast returns is >= 0, whatever the history, the active
\* pipeline and the strategies that contributed
C28_NonNegative ==
    Produced =>
       \A i \in 1..Len(result.returned) :
          /\ ~IsNaN(result.returned[i].forecast) /\ result.returned[i].forecast >= 0
          /\ ~IsNaN(result.returned[i].lower) /\ result.returned[i].lower >= 0
          /\ ~IsNaN(result.returned[i].upper) /\ result.returned[i].upper >= 0


\* C29: when the history is non-empty, every point estimate of the final series
\* is at most 1.25 * max(1.5 * historical maximum, 2 * recent average): the
\* passes after the cap raise a month above the cap by at most 25%
C29_WithinQuarterAboveCap ==
    Produced /\ result.passes.sanity =>
       \A i \in 1..Len(result.returned) :
          /\ ~IsNaN(result.returned[i].forecast)
          /\ result.returned[i].forecast * 100 <= result.passes.max_reasonable * 125


----------------------------------------------------------------------------
(* The history a forecast leaves behind *)

\* C30: after EnsemblePipeline.forecast returns, the first month of the returned
\* forecast is strictly later than the last month of the series the call left in
\* EnsemblePipeline.monthly_revenue, so history and forecast never share a month
C30_ForecastAfterStoredHistory ==
    result.op = "forecast" /\ result.status = "ok" /\ monthly_revenue # <<>> =>
       result.returned[1].date > monthly_revenue[Len(monthly_revenue)].date

====
